---- MODULE Spec2Model ----
(***************************************************************************)
(* Model of the workflow engine of src/main.py (the /workflows creation    *)
(* and listing handler, the /workflows/run/<id> handler with its step      *)
(* interpreter, ai_generate, the lead form of the home page) and of the    *)
(* credential helpers and the users table of src/databse.py.               *)
(*                                                                         *)
(* Python values are tagged records: PyNone, PStr(s) (s a sequence of text *)
(* chunks), PDict(...).  JSON documents are records tagged by field j.     *)
(* A text column holding JSON is a record tagged by field text, so that    *)
(* json.loads and json.dumps are conversions and not the identity.         *)
(***************************************************************************)
EXTENDS Integers, Sequences, FiniteSets, Bags, TLC

VARIABLES
    workflows,      \* table workflows: id -> [name, steps_json, created]
    workflow_logs,  \* table workflow_logs: id -> [workflow_id, result_json]
    steps_table,    \* table steps: sequence of data texts
    created,        \* history: id -> the steps_json text accepted at creation
    rejected,       \* history: number of creation requests answered with an error
    accepted,       \* history: number of creation requests answered with "Workflow created!"
    now,            \* the clock, in ticks of CURRENT_TIMESTAMP (one second)
    reqs,           \* requests to /workflows/run/<id>: slot -> handler state
    ai_configured,  \* AI_BASE_URL and AI_API_KEY both set (read once at import)
    issued,         \* history: the bag of hashes returned by hash_password, with their password and salt
    checked,        \* history: the last verify_password call, whether it raised, its result
    users,          \* table users: id -> [id, email, name, password_hash]
    registered,     \* history: email -> the name, password and hash of its first successful create_user
    last_call,      \* history: the last call of create_user or verify_user_login and what it returned
    ai_calls,       \* history: the calls of ai_generate: prompt, backend behaviour, result
    leads,          \* table leads: sequence of [name, email, message]
    lead_errors,    \* history: number of lead forms answered with "Name and Email are required."
    listing         \* history: the last result of the listing query of /workflows

vars == <<workflows, workflow_logs, steps_table, created, rejected, accepted, now, reqs,
          ai_configured, issued, checked, users, registered, last_call, ai_calls,
          leads, lead_errors, listing>>

wfVars == <<workflows, workflow_logs, steps_table, created, rejected, accepted, now, reqs>>
credVars == <<issued, checked>>
userVars == <<users, registered, last_call>>
aiVars == <<ai_calls>>
homeVars == <<leads, lead_errors, listing>>
\* the variables the workflow engine never touches
sideVars == <<credVars, userVars, aiVars, homeVars>>
\* the variables the credential helpers and the users table never touch
exceptCred == <<wfVars, ai_configured, userVars, aiVars, homeVars>>
exceptUser == <<wfVars, ai_configured, credVars, aiVars, homeVars>>

----------------------------------------------------------------------------
(* Bounds of the model *)

\* the number of requests (creations and runs) handled in one behaviour
MaxCalls == 4
\* the longest password of the model
MaxPwLen == 1
\* the hex digits of a salt (secrets.token_hex(16) gives 32 of them)
SaltHexLen == 1
\* the rows of the users table
MaxUsers == 2
\* the last tick of the clock
MaxTick == 1
\* the number of direct ai_generate calls in one behaviour
MaxAiCalls == 2
\* the number of hash_password calls in one behaviour
MaxIssued == 2

----------------------------------------------------------------------------
(* Python and JSON values *)

PyNone == [py |-> "None"]
PStr(s) == [py |-> "str", s |-> s]
PDict(status, text) == [py |-> "dict", status |-> status, text |-> text]

Min(a, b) == IF a <= b THEN a ELSE b

\* s[:n] of a Python string
Truncate(s, n) == SubSeq(s, 1, Min(Len(s), n))

JNum == [j |-> "num"]
JNull == [j |-> "null"]
JStr(chars) == [j |-> "str", chars |-> chars]
JArr(items) == [j |-> "arr", items |-> items]
\* a JSON object; has is the set of keys present, the other fields hold the
\* values of the keys present (and a filler for the absent ones)
JObj(has, type, url, prompt, table, data) ==
    [j |-> "obj", has |-> has, type |-> type, url |-> url, prompt |-> prompt,
     table |-> table, data |-> data]
EmptyObj == JObj({}, "", "", <<>>, "", JNull)

\* json.dumps(v): the text of a document
json_dumps(v) == [text |-> "json", doc |-> v]
\* a text that is not JSON (also the empty text)
Garbage == [text |-> "garbage"]

\* json.loads(t): raises on a text that is not JSON, else the document
json_loads(t) ==
    IF t.text = "json" THEN [raised |-> FALSE, v |-> t.doc]
    ELSE [raised |-> TRUE]

KeyOrder == <<"type", "url", "prompt", "table", "data">>

\* the keys of a dict in order, as Python strings
DictKeys(o) ==
    LET F[n \in 0..Len(KeyOrder)] ==
            IF n = 0 THEN <<>>
            ELSE IF KeyOrder[n] \in o.has
                 THEN Append(F[n - 1], JStr(<<KeyOrder[n]>>))
                 ELSE F[n - 1]
    IN F[Len(KeyOrder)]

\* enumerate(steps): what the for loop iterates over; a list gives its
\* items, a dict its keys, a string its characters, anything else raises
Enumerate(v) ==
    CASE v.j = "arr" -> [raised |-> FALSE, seq |-> v.items]
      [] v.j = "obj" -> [raised |-> FALSE, seq |-> DictKeys(v)]
      [] v.j = "str" -> [raised |-> FALSE,
                         seq |-> [k \in 1..Len(v.chars) |-> JStr(<<v.chars[k]>>)]]
      [] OTHER -> [raised |-> TRUE]

----------------------------------------------------------------------------
(* The environment: the HTTP client and the AI backend *)

HttpSnippetLen == 300
DemoPromptLen == 80

\* requests.post(url, json=payload, timeout=10): raises, or a response
NetOutcomes ==
    { [raised |-> TRUE, msg |-> "ConnectionError"],
      [raised |-> FALSE, status |-> 200, text |-> <<"o", "k">>] }

StatusText(n) == IF n = 200 THEN "200" ELSE "500"

\* what the configured AI backend does with one call: a reply with a text
\* content, a reply whose content is null, or a failure (timeout, HTTP
\* error status, malformed reply)
AiReplies ==
    { [kind |-> "content", content |-> PStr(<<"generated">>)],
      [kind |-> "content", content |-> PyNone],
      [kind |-> "fail", msg |-> "Timeout"] }

SystemPrompt == "You are a helpful assistant"

\* the value a call that raises leaves to its caller
Raise(exc) == [py |-> "raise", exc |-> exc]

\* ai_generate without the test of the configuration
ai_generate_unchecked(system_prompt, user_prompt, reply) ==
    IF reply.kind = "content"
    THEN reply.content
    ELSE PStr(<<"[AI Error: ", reply.msg, "]">>)

\* ai_generate without the except clause
ai_generate_unguarded(system_prompt, user_prompt, reply) ==
    IF ai_configured
    THEN IF reply.kind = "content" THEN reply.content ELSE Raise(reply.msg)
    ELSE PStr(<<"[AI DEMO] ", system_prompt, " | ">>
              \o Truncate(user_prompt, DemoPromptLen) \o <<"...">>)

\* requests.post is reached only inside the branch of the configuration
ai_posts == ai_configured

ai_generate(system_prompt, user_prompt, reply) ==
    IF ai_configured
    THEN IF reply.kind = "content"
         THEN reply.content
         ELSE PStr(<<"[AI Error: ", reply.msg, "]">>)
    ELSE PStr(<<"[AI DEMO] ", system_prompt, " | ">>
              \o Truncate(user_prompt, DemoPromptLen) \o <<"...">>)

----------------------------------------------------------------------------
(* The tables *)

MaxOf(S) == CHOOSE m \in S : \A n \in S : n <= m

\* an id generator that hands out the last id again
NextIdReuse(t) == IF DOMAIN t = {} THEN 1 ELSE MaxOf(DOMAIN t)

\* INTEGER PRIMARY KEY AUTOINCREMENT: the id of the next inserted row
NextId(t) == IF DOMAIN t = {} THEN 1 ELSE MaxOf(DOMAIN t) + 1

\* table fields of save_to_db steps that make the interpolated statement
\* an upsert of row 1 of another table (the trailing -- comments out the
\* rest of the statement)
InjLogs ==
    "workflow_logs (id, result_json, run_ts) VALUES (1, ?, ?) ON CONFLICT(id) DO UPDATE SET result_json = excluded.result_json --"
\* a table field that makes the statement a plain insert of a Run Record
\* of workflow 1
InjForgeLog ==
    "workflow_logs (workflow_id, result_json, run_ts) VALUES (1, ?, ?) --"
InjWorkflows ==
    "workflows (id, steps_json, created) VALUES (1, ?, ?) ON CONFLICT(id) DO UPDATE SET steps_json = excluded.steps_json --"

\* db.execute(f"INSERT INTO {table} (data, ts) VALUES (?, ?)", ...): what the
\* statement does, by the text interpolated as table
SqlInsert(table) ==
    CASE table = "steps" -> "append_steps"
      [] table = InjLogs -> "upsert_logs"
      [] table = InjWorkflows -> "upsert_workflows"
      [] table = InjForgeLog -> "insert_logs"
      [] OTHER -> "error"

SqlErrorText(table) == <<"table ", table, " has no column named data">>

----------------------------------------------------------------------------
(* The step interpreter: the body of the for loop of workflow_run *)

Succeeded(v) == [result |-> v, error |-> PyNone]
Failed(msg) == [result |-> PyNone, error |-> PStr(msg)]

\* an else branch that sets nothing
UnknownTypeUnset == [result |-> PyNone, error |-> PyNone]

\* the else branch of the dispatch: r["error"] = "Unknown step type"
UnknownType == Failed(<<"Unknown step type">>)

\* step.get(key, default)
Get(step, key, default) == IF key \in step.has THEN step[key] ELSE default

\* the try/except of one iteration: the result and error fields it leaves
TryBody(step, net, reply) ==
    IF "type" \notin step.has THEN Failed(<<"'type'">>)
    ELSE CASE step.type = "http_post" ->
                IF "url" \notin step.has THEN Failed(<<"'url'">>)
                ELSE IF net.raised THEN Failed(<<net.msg>>)
                ELSE Succeeded(PDict(net.status, Truncate(net.text, HttpSnippetLen)))
           [] step.type = "ai_generate" ->
                Succeeded(ai_generate(SystemPrompt, Get(step, "prompt", <<>>), reply))
           [] step.type = "save_to_db" ->
                LET table == Get(step, "table", "steps")
                IN  IF SqlInsert(table) = "error"
                    THEN Failed(SqlErrorText(table))
                    ELSE Succeeded(PStr(<<"Saved to ", table, ".">>))
           [] step.type = "webhook_trigger" ->
                IF "url" \notin step.has THEN Failed(<<"'url'">>)
                ELSE IF net.raised THEN Failed(<<net.msg>>)
                ELSE Succeeded(PStr(<<"Webhook status ", StatusText(net.status)>>))
           [] OTHER -> UnknownType

\* step.get("type") raises AttributeError unless the step is a dict; it is
\* evaluated before the try, so the exception leaves the handler
StepRaises(step) == step.j # "obj"

\* the StepResult r appended for step number i (0-based) of the loop
StepResult(step, i, net, reply) ==
    LET out == TryBody(step, net, reply)
    IN  [step |-> i + 1,
         type |-> IF "type" \in step.has THEN PStr(<<step.type>>) ELSE PyNone,
         result |-> out.result,
         error |-> out.error]

\* the statement a save_to_db step executes and commits, if any
StepSql(step) ==
    IF step.j = "obj" /\ "type" \in step.has /\ step.type = "save_to_db"
    THEN SqlInsert(Get(step, "table", "steps"))
    ELSE "none"

----------------------------------------------------------------------------
(* The inputs of the model *)

Url == "https://example.com"

sHttp == JObj({"type", "url"}, "http_post", Url, <<>>, "", JNull)
sWebhookNoUrl == JObj({"type"}, "webhook_trigger", "", <<>>, "", JNull)
sAi == JObj({"type", "prompt"}, "ai_generate", "", <<"h", "i">>, "", JNull)
sBogus == JObj({"type"}, "bogus", "", <<>>, "", JNull)
sNoType == JObj({"url"}, "", Url, <<>>, "", JNull)
sSave == JObj({"type", "data"}, "save_to_db", "", <<>>, "", JNum)
sSaveInjLogs == JObj({"type", "table"}, "save_to_db", "", <<>>, InjLogs, JNull)
sSaveForgeLog == JObj({"type", "table"}, "save_to_db", "", <<>>, InjForgeLog, JNull)
sSaveInjWorkflows ==
    JObj({"type", "table", "data"}, "save_to_db", "", <<>>, InjWorkflows, JArr(<<>>))

\* the texts submitted as steps_json to the creation form
FormTexts ==
    { Garbage,
      json_dumps(JNum),
      json_dumps(JArr(<<sHttp, sBogus, sNoType>>)),
      json_dumps(JArr(<<sSave, sAi, JNum>>)),
      json_dumps(JArr(<<sSaveInjLogs, sSaveInjWorkflows, sWebhookNoUrl>>)),
      json_dumps(JArr(<<sSaveForgeLog, sAi>>)) }

Names == {<<"w", "f">>}
Methods == {"GET", "POST"}

Slots == 1..MaxCalls

Idle == [pc |-> "idle", method |-> "", id |-> 0, steps |-> <<>>, i |-> 0,
         results |-> <<>>, exc |-> "", logid |-> 0]

----------------------------------------------------------------------------
(* The handlers *)

\* workflows(), POST: the steps text is stored as soon as json.loads accepts it
StepsAccepted(steps_json) == ~json_loads(steps_json).raised

\* the requests handled so far
Calls ==
    accepted + rejected + Len(leads) + lead_errors
        + Cardinality({q \in Slots : reqs[q].pc # "idle"})

RECURSIVE LStrip(_)
LStrip(s) == IF s # <<>> /\ Head(s) = " " THEN LStrip(Tail(s)) ELSE s

RECURSIVE RStrip(_)
RStrip(s) ==
    IF s # <<>> /\ s[Len(s)] = " " THEN RStrip(SubSeq(s, 1, Len(s) - 1)) ELSE s

\* str.strip() of a form field
Strip(s) == RStrip(LStrip(s))

\* the POST branch of workflows(); name is the form field as submitted
workflows_post(name, steps_json) ==
    /\ Calls < MaxCalls
    /\ IF StepsAccepted(steps_json)
       THEN LET id == NextId(workflows)
            IN  /\ workflows' = workflows @@
                     (id :> [name |-> Strip(name), steps_json |-> steps_json,
                             created |-> now])
                /\ created' = created @@ (id :> steps_json)
                /\ accepted' = accepted + 1
                /\ UNCHANGED rejected
       ELSE /\ rejected' = rejected + 1
            /\ UNCHANGED <<workflows, created, accepted>>
    /\ UNCHANGED <<workflow_logs, steps_table, reqs, ai_configured, now>>
    /\ UNCHANGED sideVars

\* workflow_run(id) up to the for loop: the lookup, json.loads of the stored
\* text and, for a POST, the start of the iteration
workflow_run_begin(q, method, id) ==
    /\ Calls < MaxCalls
    /\ reqs[q].pc = "idle"
    /\ \A p \in Slots : p < q => reqs[p].pc # "idle"
    /\ LET req == [Idle EXCEPT !.method = method, !.id = id]
       IN  IF id \notin DOMAIN workflows
           THEN reqs' = [reqs EXCEPT ![q] = [req EXCEPT !.pc = "notfound"]]
           ELSE LET parsed == json_loads(workflows[id].steps_json)
                IN  IF parsed.raised
                    THEN reqs' = [reqs EXCEPT ![q] =
                                    [req EXCEPT !.pc = "aborted", !.exc = "json.loads"]]
                    ELSE IF method # "POST"
                    THEN reqs' = [reqs EXCEPT ![q] = [req EXCEPT !.pc = "rendered"]]
                    ELSE LET it == Enumerate(parsed.v)
                         IN  IF it.raised
                             THEN reqs' = [reqs EXCEPT ![q] =
                                    [req EXCEPT !.pc = "aborted", !.exc = "enumerate"]]
                             ELSE reqs' = [reqs EXCEPT ![q] =
                                    [req EXCEPT !.pc = "loop", !.steps = it.seq]]
    /\ UNCHANGED <<workflows, workflow_logs, steps_table, created, rejected, accepted,
                   now, ai_configured>>
    /\ UNCHANGED sideVars

\* the effect on the tables of the statement of a save_to_db step
ApplySql(kind, data) ==
    /\ steps_table' = IF kind = "append_steps"
                      THEN Append(steps_table, json_dumps(data))
                      ELSE steps_table
    /\ workflow_logs' =
         IF kind = "upsert_logs"
         THEN IF 1 \in DOMAIN workflow_logs
              THEN [workflow_logs EXCEPT ![1].result_json = json_dumps(data)]
              ELSE workflow_logs @@
                   (1 :> [workflow_id |-> 0, result_json |-> json_dumps(data)])
         ELSE IF kind = "insert_logs"
         THEN workflow_logs @@
              (NextId(workflow_logs) :> [workflow_id |-> 1, result_json |-> json_dumps(data)])
         ELSE workflow_logs
    /\ workflows' =
         IF kind = "upsert_workflows"
         THEN IF 1 \in DOMAIN workflows
              THEN [workflows EXCEPT ![1].steps_json = json_dumps(data)]
              ELSE workflows @@ (1 :> [name |-> "NULL", steps_json |-> json_dumps(data),
                                       created |-> now])
         ELSE workflows

\* one iteration of the for loop of workflow_run
workflow_run_step(q) ==
    /\ reqs[q].pc = "loop"
    /\ reqs[q].i < Len(reqs[q].steps)
    /\ LET step == reqs[q].steps[reqs[q].i + 1]
       IN  IF StepRaises(step)
           THEN /\ reqs' = [reqs EXCEPT ![q].pc = "aborted", ![q].exc = "step"]
                /\ UNCHANGED <<workflows, workflow_logs, steps_table>>
           ELSE \E net \in NetOutcomes, reply \in AiReplies :
                  /\ reqs' = [reqs EXCEPT
                                ![q].results =
                                    Append(@, StepResult(step, reqs[q].i, net, reply)),
                                ![q].i = @ + 1]
                  /\ ApplySql(StepSql(step), Get(step, "data", EmptyObj))
    /\ UNCHANGED <<created, rejected, accepted, now, ai_configured>>
    /\ UNCHANGED sideVars

\* after the loop: the Run Record is inserted and committed
workflow_run_log(q) ==
    /\ reqs[q].pc = "loop"
    /\ reqs[q].i = Len(reqs[q].steps)
    /\ LET id == NextId(workflow_logs)
       IN  /\ workflow_logs' = workflow_logs @@
                (id :> [workflow_id |-> reqs[q].id,
                        result_json |-> json_dumps(JArr(reqs[q].results))])
           /\ reqs' = [reqs EXCEPT ![q].pc = "completed", ![q].logid = id]
    /\ UNCHANGED <<workflows, steps_table, created, rejected, accepted, now, ai_configured>>
    /\ UNCHANGED sideVars

----------------------------------------------------------------------------
(* The specification of the workflow engine *)

Init ==
    /\ workflows = <<>>
    /\ workflow_logs = <<>>
    /\ steps_table = <<>>
    /\ created = <<>>
    /\ rejected = 0
    /\ accepted = 0
    /\ now = 0
    /\ reqs = [q \in Slots |-> Idle]
    /\ ai_configured \in BOOLEAN
    /\ issued = EmptyBag
    /\ checked = <<>>
    /\ users = <<>>
    /\ registered = <<>>
    /\ last_call = <<>>
    /\ ai_calls = <<>>
    /\ leads = <<>>
    /\ lead_errors = 0
    /\ listing = <<>>

Next ==
    \/ \E name \in Names, steps_json \in FormTexts : workflows_post(name, steps_json)
    \/ \E q \in Slots, method \in Methods,
          id \in DOMAIN workflows \cup {NextId(workflows)} :
            workflow_run_begin(q, method, id)
    \/ \E q \in Slots : workflow_run_step(q)
    \/ \E q \in Slots : workflow_run_log(q)

Spec == Init /\ [][Next]_vars

----------------------------------------------------------------------------
(* The credential helpers of src/databse.py.  A string is a sequence of    *)
(* one-character strings; None is NoneHash.                                *)

PwAlphabet == {"a", "$"}
HexDigits == {"a", "b"}

SeqsUpTo(S, n) == UNION {[1..k -> S] : k \in 0..n}

Passwords == SeqsUpTo(PwAlphabet, MaxPwLen)
\* secrets.token_hex: a string of hex digits of a fixed length
Salts == [1..SaltHexLen -> HexDigits]

NoneHash == <<"None">>

\* the two hex digits of the byte of a character
HexOfChar(c) ==
    CASE c = "a" -> <<"6", "1">>
      [] c = "b" -> <<"6", "2">>
      [] c = "$" -> <<"2", "4">>

\* hashlib.sha256(s.encode()).hexdigest(), taken as collision-free: a
\* string of hex digits that determines s
RECURSIVE HexDigest(_)
HexDigest(s) ==
    IF s = <<>> THEN <<>> ELSE HexOfChar(Head(s)) \o HexDigest(Tail(s))

\* a hash whose digest leaves the salt out
hash_password_unsalted(password, salt) ==
    salt \o <<"$">> \o HexDigest(password)

\* a hash that puts one fixed salt in the place of the drawn one
hash_password_fixed_salt(password, salt) ==
    LET fixed == [k \in 1..Len(salt) |-> "a"]
    IN  fixed \o <<"$">> \o HexDigest(fixed \o password)

hash_password(password, salt) ==
    salt \o <<"$">> \o HexDigest(salt \o password)

\* the index of the first '$' of a string that has one
FirstSep(s) == CHOOSE k \in 1..Len(s) : s[k] = "$" /\ \A m \in 1..(k - 1) : s[m] # "$"

HasSep(s) == \E k \in 1..Len(s) : s[k] = "$"

\* a test that lets a string without '$' through
RejectedHashOnlyEmpty(stored_hash) ==
    stored_hash = NoneHash \/ stored_hash = <<>>

\* the test of verify_password: not stored_hash or '$' not in stored_hash
RejectedHash(stored_hash) ==
    stored_hash = NoneHash \/ stored_hash = <<>> \/ ~HasSep(stored_hash)

\* the unpacking of stored_hash.split('$', 1) into two names raises when the
\* value is None or the split gives a single part
SplitRaises(stored_hash) ==
    stored_hash = NoneHash \/ ~HasSep(stored_hash)

\* verify_password leaves by an exception
verify_password_raises(stored_hash, provided_password) ==
    ~RejectedHash(stored_hash) /\ SplitRaises(stored_hash)

verify_password(stored_hash, provided_password) ==
    IF RejectedHash(stored_hash)
    THEN FALSE
    ELSE LET k == FirstSep(stored_hash)
             salt == SubSeq(stored_hash, 1, k - 1)
             stored_hashed == SubSeq(stored_hash, k + 1, Len(stored_hash))
             computed_hash == HexDigest(salt \o provided_password)
         IN  computed_hash = stored_hashed

\* stored hashes that hash_password never returns
MalformedHashes == { NoneHash, <<>>, <<"a", "b">> }

\* a call of hash_password; the salt is the draw of secrets.token_hex
HashCall(password, salt) ==
    /\ BagCardinality(issued) < MaxIssued
    /\ issued' = issued (+) SetToBag({[password |-> password, salt |-> salt,
                                       hash |-> hash_password(password, salt)]})
    /\ UNCHANGED checked
    /\ UNCHANGED exceptCred

\* a call of verify_password on a stored hash
VerifyCall(stored_hash, provided_password) ==
    /\ checked' =
         LET raised == verify_password_raises(stored_hash, provided_password)
         IN  <<[stored |-> stored_hash, provided |-> provided_password,
                raised |-> raised,
                ret |-> IF raised THEN FALSE
                        ELSE verify_password(stored_hash, provided_password)]>>
    /\ UNCHANGED issued
    /\ UNCHANGED exceptCred

CredNext ==
    \/ \E password \in Passwords, salt \in Salts : HashCall(password, salt)
    \/ \E stored_hash \in {h.hash : h \in BagToSet(issued)} \cup MalformedHashes,
          provided_password \in Passwords :
            VerifyCall(stored_hash, provided_password)

\* the credential helpers never read the AI configuration
CredInit == Init /\ ai_configured = FALSE

CredSpec == CredInit /\ [][CredNext]_vars

----------------------------------------------------------------------------
(* The users table of src/databse.py and the functions over it *)

\* emails are compared as SQLite compares TEXT: byte for byte
Emails == {"a@x.com", "A@x.com", "b@x.com"}
UserNames == {"Ann", "Bob"}
UserPasswords == {<<"a">>, <<"$">>}
UserSalts == {<<"a">>, <<"b">>}

\* a users table without the UNIQUE constraint
NoConstraint(email) == FALSE

\* the INSERT breaks the UNIQUE constraint of column email
UniqueViolated(email) == \E id \in DOMAIN users : users[id].email = email

\* create_user: True after the INSERT and the commit, False on IntegrityError
create_user(email, name, password, salt) ==
    /\ Cardinality(DOMAIN users) < MaxUsers
    /\ LET password_hash == hash_password(password, salt)
           id == NextId(users)
       IN  IF UniqueViolated(email)
           THEN /\ UNCHANGED <<users, registered>>
                /\ last_call' = <<[op |-> "create_user", email |-> email, name |-> name,
                                   existed |-> email \in DOMAIN registered,
                                   ret |-> FALSE]>>
           ELSE /\ users' = users @@ (id :> [id |-> id, email |-> email, name |-> name,
                                             password_hash |-> password_hash])
                /\ registered' =
                     IF email \in DOMAIN registered THEN registered
                     ELSE registered @@ (email :> [name |-> name, password |-> password,
                                                   password_hash |-> password_hash])
                /\ last_call' = <<[op |-> "create_user", email |-> email, name |-> name,
                                   existed |-> email \in DOMAIN registered,
                                   ret |-> TRUE]>>
    /\ UNCHANGED exceptUser

\* the ASCII lower case of an email
Lower(email) == IF email = "A@x.com" THEN "a@x.com" ELSE email

\* a lookup that folds case
get_user_by_email_nocase(email) ==
    LET ids == {id \in DOMAIN users : Lower(users[id].email) = Lower(email)}
    IN  IF ids = {} THEN PyNone
        ELSE users[CHOOSE id \in ids : \A other \in ids : id <= other]

\* SELECT * FROM users WHERE email = ? and fetchone(): the first row, or None
get_user_by_email(email) ==
    LET ids == {id \in DOMAIN users : users[id].email = email}
    IN  IF ids = {} THEN PyNone
        ELSE users[CHOOSE id \in ids : \A other \in ids : id <= other]

verify_user_login(email, password) ==
    LET user == get_user_by_email(email)
    IN  IF user # PyNone /\ verify_password(user.password_hash, password)
        THEN user
        ELSE PyNone

\* a call of verify_user_login
LoginCall(email, password) ==
    /\ last_call' = <<[op |-> "verify_user_login", email |-> email,
                       password |-> password, before |-> users,
                       ret |-> verify_user_login(email, password)]>>
    /\ UNCHANGED <<users, registered>>
    /\ UNCHANGED exceptUser

UserNext ==
    \/ \E email \in Emails, name \in UserNames, password \in UserPasswords,
          salt \in UserSalts : create_user(email, name, password, salt)
    \/ \E email \in Emails, password \in UserPasswords : LoginCall(email, password)

UserSpec == CredInit /\ [][UserNext]_vars

----------------------------------------------------------------------------
(* ai_generate called on its own, on short prompts and on prompts longer    *)
(* than the part the demo output keeps                                      *)

LongPrompt(last) ==
    [k \in 1..(DemoPromptLen + 1) |-> IF k <= DemoPromptLen THEN "x" ELSE last]

Prompts == { <<"h", "i">>, <<"h", "e", "l", "l", "o">>, LongPrompt("y"), LongPrompt("z") }

AiCall(user_prompt, reply) ==
    /\ Len(ai_calls) < MaxAiCalls
    /\ ai_calls' = Append(ai_calls,
                          [user_prompt |-> user_prompt, reply |-> reply,
                           posted |-> ai_posts,
                           out |-> ai_generate(SystemPrompt, user_prompt, reply)])
    /\ UNCHANGED <<wfVars, ai_configured, credVars, userVars, homeVars>>

AiNext == \E user_prompt \in Prompts, reply \in AiReplies : AiCall(user_prompt, reply)

AiSpec == Init /\ [][AiNext]_vars

----------------------------------------------------------------------------
(* The forms: workflow creation, the listing of /workflows and the lead     *)
(* capture of the home page, with a clock that ticks between requests       *)

\* the POST branch of home(): the lead is stored when name and email are
\* non-empty after stripping, else the error is flashed
home_post(name, email, message) ==
    /\ Calls < MaxCalls
    /\ IF Strip(name) # <<>> /\ Strip(email) # <<>>
       THEN /\ leads' = Append(leads, [name |-> Strip(name), email |-> Strip(email),
                                       message |-> Strip(message)])
            /\ UNCHANGED lead_errors
       ELSE /\ lead_errors' = lead_errors + 1
            /\ UNCHANGED leads
    /\ UNCHANGED <<wfVars, ai_configured, credVars, userVars, aiVars, listing>>

\* SELECT * FROM workflows ORDER BY created DESC over the rows of ids: a row
\* of the greatest created, then the others in the same way; the statement
\* leaves the order of rows of equal created open
RECURSIVE OrderByCreatedDesc(_)
OrderByCreatedDesc(ids) ==
    IF ids = {} THEN { <<>> }
    ELSE UNION { { <<first>> \o rest : rest \in OrderByCreatedDesc(ids \ {first}) } :
                 first \in { id \in ids : \A other \in ids :
                                workflows[id].created >= workflows[other].created } }

\* the GET branch of workflows(): the page lists the rows of the query
workflows_get ==
    /\ \E l \in OrderByCreatedDesc(DOMAIN workflows) :
          listing' = <<[ids |-> l, rows |-> Cardinality(DOMAIN workflows)]>>
    /\ UNCHANGED <<wfVars, ai_configured, credVars, userVars, aiVars, leads, lead_errors>>

\* a second passes
Tick ==
    /\ now < MaxTick
    /\ now' = now + 1
    /\ UNCHANGED <<workflows, workflow_logs, steps_table, created, rejected, accepted, reqs>>
    /\ UNCHANGED <<ai_configured, sideVars>>

FormNames == { <<>>, <<" ", "w">> }
FormSteps == { Garbage, json_dumps(JArr(<<sBogus>>)) }
LeadNames == { <<" ">>, <<"n", " ">> }
LeadEmails == { <<>>, <<"e">> }

FormNext ==
    \/ \E name \in FormNames, steps_json \in FormSteps : workflows_post(name, steps_json)
    \/ workflows_get
    \/ \E name \in LeadNames, email \in LeadEmails : home_post(name, email, <<>>)
    \/ Tick

FormSpec == CredInit /\ [][FormNext]_vars

----------------------------------------------------------------------------
(* The claims *)

Ended(q) == reqs[q].method = "POST" /\ reqs[q].pc \in {"completed", "aborted"}

\* the type a step declares, as the StepResult carries it
DeclaredType(step) == IF "type" \in step.has THEN PStr(<<step.type>>) ELSE PyNone

\* C1: every POST run that has ended returns exactly one StepResult per step of
\* the workflow, in order: the k-th result has step index k and the k-th
\* step's declared type.
C1_OneResultPerStep ==
    \A q \in Slots :
        Ended(q) =>
            /\ Len(reqs[q].results) = Len(reqs[q].steps)
            /\ \A k \in 1..Len(reqs[q].results) :
                  /\ reqs[q].results[k].step = k
                  /\ reqs[q].results[k].type = DeclaredType(reqs[q].steps[k])

\* C2: no exception raised while a step of a run executes leaves workflow_run.
C2_StepExceptionsCaught ==
    \A q \in Slots : ~(reqs[q].pc = "aborted" /\ reqs[q].exc = "step")

\* C3: a run started by a POST on an existing workflow is never aborted, and
\* once it has completed exactly one Run Record of its workflow id holds its
\* result sequence.
C3_RunNeverAborts ==
    \A q \in Slots :
        reqs[q].method = "POST" /\ reqs[q].pc \notin {"idle", "notfound"} =>
            /\ reqs[q].pc \in {"loop", "completed"}
            /\ reqs[q].pc = "completed" =>
                  /\ reqs[q].logid \in DOMAIN workflow_logs
                  /\ workflow_logs[reqs[q].logid].workflow_id = reqs[q].id

KnownTypes == {"http_post", "ai_generate", "save_to_db", "webhook_trigger"}

\* a step object whose type is none of the four kinds, or that has no type
UnknownTyped(step) ==
    /\ step.j = "obj"
    /\ "type" \in step.has => step.type \notin KnownTypes

\* the loop of request q has reached its k-th step
Attempted(q, k) ==
    \/ reqs[q].i >= k
    \/ reqs[q].pc = "aborted" /\ reqs[q].exc = "step" /\ reqs[q].i = k - 1

\* C4 (as stated): a step of unknown type, or with no type, yields a
\* StepResult whose error is exactly "unknown step type" and whose result is
\* empty.
C4_ErrorIsUnknownStepType ==
    \A q \in Slots : \A k \in 1..Len(reqs[q].results) :
        UnknownTyped(reqs[q].steps[k]) =>
            /\ reqs[q].results[k].error = PStr(<<"unknown step type">>)
            /\ reqs[q].results[k].result = PyNone

\* C4 (amended): a step object whose type is present and none of the four
\* kinds yields error "Unknown step type" and an empty result, a step object
\* with no type yields error "'type'" and an empty result; neither throws,
\* and the loop goes on past it.
C4_UnknownTypeIsolated ==
    \A q \in Slots : \A k \in 1..Len(reqs[q].steps) :
        UnknownTyped(reqs[q].steps[k]) /\ Attempted(q, k) =>
            /\ reqs[q].i >= k
            /\ reqs[q].results[k].result = PyNone
            /\ reqs[q].results[k].error =
                  IF "type" \in reqs[q].steps[k].has
                  THEN PStr(<<"Unknown step type">>)
                  ELSE PStr(<<"'type'">>)

\* a run completed after a step of unknown type and a step with no type,
\* with a step executed after the step of unknown type
C4_Witness ==
    \E q \in Slots :
        /\ reqs[q].pc = "completed"
        /\ \E k \in 1..(Len(reqs[q].steps) - 1) :
              /\ UnknownTyped(reqs[q].steps[k])
              /\ "type" \in reqs[q].steps[k].has
              /\ reqs[q].results[k + 1].step = k + 1
        /\ \E k \in 1..Len(reqs[q].steps) :
              /\ UnknownTyped(reqs[q].steps[k])
              /\ "type" \notin reqs[q].steps[k].has

\* C5: in every StepResult exactly one of result and error is populated.
C5_ExactlyOneOfResultError ==
    \A q \in Slots : \A k \in 1..Len(reqs[q].results) :
        (reqs[q].results[k].result = PyNone) # (reqs[q].results[k].error = PyNone)

IsPrefix(s, t) == Len(s) <= Len(t) /\ SubSeq(t, 1, Len(s)) = s

\* C6: a run in its loop only ever executes its next step and stays in the
\* loop, or completes once every step has executed (no step is skipped and
\* no failure ends the loop early), and rows saved by earlier steps stay.
C6_InOrderNoShortCircuit ==
    [][\A q \in Slots :
          reqs[q].pc = "loop" /\ reqs'[q] # reqs[q] =>
              /\ \/ /\ reqs'[q].pc = "loop"
                    /\ reqs'[q].i = reqs[q].i + 1
                    /\ Len(reqs'[q].results) = reqs'[q].i
                 \/ /\ reqs'[q].pc = "completed"
                    /\ reqs[q].i = Len(reqs[q].steps)
              /\ IsPrefix(steps_table, steps_table')]_vars

\* C7: a workflow is stored only when the submitted steps text parses as a
\* JSON array.
C7_OnlyArraysStored ==
    \A id \in DOMAIN created :
        /\ created[id].text = "json"
        /\ created[id].doc.j = "arr"

\* C8: every Run Record that exists before an operation exists after it with
\* the same workflow id and the same result sequence.
C8_RunLogAppendOnly ==
    [][\A id \in DOMAIN workflow_logs :
          /\ id \in DOMAIN workflow_logs'
          /\ workflow_logs'[id] = workflow_logs[id]]_vars

\* C9: the stored steps of every created workflow are those given at its
\* creation.
C9_StepsImmutable ==
    \A id \in DOMAIN created :
        /\ id \in DOMAIN workflows
        /\ workflows[id].steps_json = created[id]

\* C10: verify_password on a hash that hash_password returned for password p
\* is true exactly when the provided password is p.
C10_VerifyIffSamePassword ==
    \A k \in 1..Len(checked) : \A h \in BagToSet(issued) :
        checked[k].stored = h.hash =>
            (checked[k].ret <=> checked[k].provided = h.password)

\* a hash issued for a password that holds the separator was verified
\* against that password, and the verification succeeded
C10_Witness ==
    \E k \in 1..Len(checked) : \E h \in BagToSet(issued) :
        /\ checked[k].stored = h.hash
        /\ checked[k].provided = h.password
        /\ \E m \in 1..Len(h.password) : h.password[m] = "$"
        /\ checked[k].ret

\* C11: verify_password on a malformed stored hash (None, the empty string, a
\* string without '$') returns false for every candidate password and never
\* raises.
C11_MalformedHashFailsClosed ==
    \A k \in 1..Len(checked) :
        checked[k].stored \in MalformedHashes =>
            /\ ~checked[k].raised
            /\ checked[k].ret = FALSE

\* a string without '$' was verified against a non-empty candidate, and the
\* call returned false
C11_Witness ==
    \E k \in 1..Len(checked) :
        /\ checked[k].stored = <<"a", "b">>
        /\ checked[k].provided # <<>>
        /\ ~checked[k].raised
        /\ checked[k].ret = FALSE

\* the rows of users that hold an email
RowsOf(email) == {id \in DOMAIN users : users[id].email = email}

\* C12: create_user with an email that a stored user already has returns
\* False and leaves the table as it was: the email keeps one row, with the
\* name and the hash of its first creation; no two users share an email.
C12_DuplicateEmailRejected ==
    /\ \A k \in 1..Len(last_call) :
          last_call[k].op = "create_user" /\ last_call[k].existed =>
              last_call[k].ret = FALSE
    /\ \A email \in DOMAIN registered :
          /\ Cardinality(RowsOf(email)) = 1
          /\ \A id \in RowsOf(email) :
                /\ users[id].name = registered[email].name
                /\ users[id].password_hash = registered[email].password_hash
    /\ \A id1, id2 \in DOMAIN users :
          users[id1].email = users[id2].email => id1 = id2

\* create_user was called with the email of a stored user and another name,
\* and it returned False
C12_Witness ==
    \E k \in 1..Len(last_call) :
        /\ last_call[k].op = "create_user"
        /\ last_call[k].existed
        /\ last_call[k].ret = FALSE
        /\ Cardinality(DOMAIN users) = 1
        /\ \E id \in DOMAIN users :
              /\ users[id].email = last_call[k].email
              /\ users[id].name # last_call[k].name

\* C13: verify_user_login returns the stored user exactly when a user with
\* that very email exists and the password is the one it was created with,
\* None otherwise, and it leaves the users table as it was.
C13_LoginIffRegisteredPassword ==
    \A k \in 1..Len(last_call) :
        last_call[k].op = "verify_user_login" =>
            /\ users = last_call[k].before
            /\ IF /\ last_call[k].email \in DOMAIN registered
                  /\ last_call[k].password = registered[last_call[k].email].password
               THEN /\ last_call[k].ret # PyNone
                    /\ last_call[k].ret \in {users[id] : id \in DOMAIN users}
                    /\ last_call[k].ret.email = last_call[k].email
               ELSE last_call[k].ret = PyNone

\* a login with the password of a stored user, under that user's email in
\* another case, returned None
C13_Witness ==
    \E k \in 1..Len(last_call) :
        /\ last_call[k].op = "verify_user_login"
        /\ last_call[k].email = "A@x.com"
        /\ "a@x.com" \in DOMAIN registered
        /\ "A@x.com" \notin DOMAIN registered
        /\ last_call[k].password = registered["a@x.com"].password
        /\ last_call[k].ret = PyNone

\* the result is the demo text: a string that starts with the demo marker
IsDemo(out) == out.py = "str" /\ Head(out.s) = "[AI DEMO] "

\* C14 (as stated): with no AI credential configured every call of
\* ai_generate returns one and the same constant, and none makes an HTTP call.
C14_FallbackIsConstant ==
    ~ai_configured =>
        \A k, m \in 1..Len(ai_calls) :
            /\ ~ai_calls[k].posted
            /\ ai_calls[k].out = ai_calls[m].out

\* C14 (amended): with no AI credential configured ai_generate makes no HTTP
\* call and returns the demo text, which is determined by the first
\* DemoPromptLen characters of the prompt: two calls return the same text
\* exactly when their prompts agree on those characters.
C14_FallbackDeterminedByPrompt ==
    ~ai_configured =>
        \A k, m \in 1..Len(ai_calls) :
            /\ ~ai_calls[k].posted
            /\ IsDemo(ai_calls[k].out)
            /\ (ai_calls[k].out = ai_calls[m].out) <=>
                   (Truncate(ai_calls[k].user_prompt, DemoPromptLen)
                      = Truncate(ai_calls[m].user_prompt, DemoPromptLen))

\* without a credential, two calls on different long prompts with the same
\* first DemoPromptLen characters, under different backend behaviours,
\* returned the same text
C14_Witness ==
    /\ ~ai_configured
    /\ \E k, m \in 1..Len(ai_calls) :
          /\ ai_calls[k].user_prompt # ai_calls[m].user_prompt
          /\ Len(ai_calls[k].user_prompt) > DemoPromptLen
          /\ ai_calls[k].reply # ai_calls[m].reply
          /\ ai_calls[k].out = ai_calls[m].out

\* the backend is unavailable to a call: not configured, or failing
Unavailable(c) == ~ai_configured \/ c.reply.kind = "fail"

\* C15 (as stated): when the backend is unavailable ai_generate returns the
\* fallback text and does not raise.
C15_UnavailableGivesFallback ==
    \A k \in 1..Len(ai_calls) :
        Unavailable(ai_calls[k]) =>
            /\ ai_calls[k].out.py # "raise"
            /\ IsDemo(ai_calls[k].out)

\* C15 (amended): ai_generate never raises; not configured it returns the
\* demo text, configured with a failing backend it returns the text
\* "[AI Error: <the exception>]".
C15_UnavailableNeverRaises ==
    \A k \in 1..Len(ai_calls) :
        /\ ai_calls[k].out.py # "raise"
        /\ ~ai_configured => IsDemo(ai_calls[k].out)
        /\ ai_configured /\ ai_calls[k].reply.kind = "fail" =>
              ai_calls[k].out = PStr(<<"[AI Error: ", ai_calls[k].reply.msg, "]">>)

\* a configured call whose backend failed has returned
C15_Witness ==
    /\ ai_configured
    /\ \E k \in 1..Len(ai_calls) :
          /\ ai_calls[k].reply.kind = "fail"
          /\ ai_calls[k].out.py = "str"

\* C16: creation never deduplicates: every accepted creation adds one row
\* under an id of its own, identical name and steps included, so the rows
\* are as many as the accepted creations.
C16_OneRowPerCreation ==
    /\ Cardinality(DOMAIN workflows) = accepted
    /\ DOMAIN created = DOMAIN workflows

\* two workflows of the same name and the same steps are stored under two ids
C16_Witness ==
    \E id1, id2 \in DOMAIN workflows :
        /\ id1 # id2
        /\ workflows[id1].name = workflows[id2].name
        /\ workflows[id1].steps_json = workflows[id2].steps_json
        /\ accepted = 2

\* C18: no request that fails validation is persisted: no stored workflow
\* has an empty name or steps that do not parse, and no stored lead has an
\* empty name or an empty email.
C18_InvalidNeverPersisted ==
    /\ \A id \in DOMAIN workflows :
          /\ workflows[id].name # <<>>
          /\ ~json_loads(workflows[id].steps_json).raised
    /\ \A k \in 1..Len(leads) :
          /\ leads[k].name # <<>>
          /\ leads[k].email # <<>>

\* C19: the listing returns every stored workflow exactly once, a workflow
\* created later before a workflow created earlier, also when both were
\* created within the same tick.
C19_ListingNewestFirst ==
    \A n \in 1..Len(listing) :
        LET l == listing[n].ids
        IN  /\ Len(l) = listing[n].rows
            /\ \A i, j \in DOMAIN l : i < j => l[i] > l[j]

\* C17: a run that started and ended while another run of the same workflow
\* was still executing has appended its own Run Record, which holds exactly
\* its own results, one per step and in step order; the results the other
\* run has so far are its own too.
C17_ConcurrentRunsIndependent ==
    \A q1, q2 \in Slots :
        /\ q2 < q1
        /\ reqs[q1].method = "POST" /\ reqs[q2].method = "POST"
        /\ reqs[q1].id = reqs[q2].id
        /\ reqs[q2].pc = "loop"
        /\ reqs[q1].pc \in {"completed", "aborted"}
        => /\ reqs[q1].pc = "completed"
           /\ reqs[q1].logid \in DOMAIN workflow_logs
           /\ workflow_logs[reqs[q1].logid] =
                 [workflow_id |-> reqs[q1].id,
                  result_json |-> json_dumps(JArr(reqs[q1].results))]
           /\ Len(reqs[q1].results) = Len(reqs[q1].steps)
           /\ \A k \in 1..Len(reqs[q1].results) : reqs[q1].results[k].step = k
           /\ \A k \in 1..Len(reqs[q2].results) :
                 /\ reqs[q2].results[k].step = k
                 /\ reqs[q2].results[k].type = DeclaredType(reqs[q2].steps[k])

\* C20 (as stated): two calls of hash_password on the same password return
\* two different strings, and each of them verifies against the password.
C20_TwoHashesAlwaysDiffer ==
    /\ \A h \in BagToSet(issued) : CopiesIn(h, issued) = 1
    /\ \A h1, h2 \in BagToSet(issued) :
          h1 # h2 /\ h1.password = h2.password => h1.hash # h2.hash
    /\ \A k \in 1..Len(checked) : \A h \in BagToSet(issued) :
          checked[k].stored = h.hash /\ checked[k].provided = h.password =>
              checked[k].ret

\* C20 (amended): two calls of hash_password on the same password return
\* different strings whenever they drew different salts, and the same string
\* when they drew the same salt; each string verifies against the password.
C20_HashesDifferWithSalts ==
    /\ \A h1, h2 \in BagToSet(issued) :
          h1.password = h2.password =>
              (h1.hash = h2.hash <=> h1.salt = h2.salt)
    /\ \A k \in 1..Len(checked) : \A h \in BagToSet(issued) :
          checked[k].stored = h.hash /\ checked[k].provided = h.password =>
              checked[k].ret

\* one password was hashed twice under two salts, and one of the two
\* strings was verified against it
C20_Witness ==
    \E h1, h2 \in BagToSet(issued) :
        /\ h1.password = h2.password
        /\ h1.salt # h2.salt
        /\ h1.hash # h2.hash
        /\ \E k \in 1..Len(checked) :
              /\ checked[k].stored = h2.hash
              /\ checked[k].provided = h2.password
              /\ checked[k].ret

\* the Run Records of a workflow, and the POST runs of it that completed
RecordsOf(w) == {id \in DOMAIN workflow_logs : workflow_logs[id].workflow_id = w}
CompletedRunsOf(w) ==
    {q \in Slots : reqs[q].method = "POST" /\ reqs[q].id = w /\ reqs[q].pc = "completed"}

\* C21: a GET of the run page and a request for a workflow id that does not
\* exist execute no step and append no Run Record, so a workflow has as many
\* Run Records as POST runs of it have completed.
C21_RecordsCountCompletedPosts ==
    /\ \A q \in Slots :
          reqs[q].pc # "idle" /\ (reqs[q].method = "GET" \/ reqs[q].pc = "notfound") =>
              /\ reqs[q].i = 0
              /\ reqs[q].results = <<>>
              /\ reqs[q].logid = 0
    /\ \A w \in (DOMAIN workflows \cup {reqs[q].id : q \in Slots}) \ {0} :
          Cardinality(RecordsOf(w)) = Cardinality(CompletedRunsOf(w))

\* the k-th step of request q is an object of type ai_generate
AiStep(q, k) ==
    /\ reqs[q].steps[k].j = "obj"
    /\ "type" \in reqs[q].steps[k].has
    /\ reqs[q].steps[k].type = "ai_generate"

\* the text ai_generate returns for a failure of the configured backend
AiErrorTexts == {PStr(<<"[AI Error: ", r.msg, "]">>) : r \in {x \in AiReplies : x.kind = "fail"}}

\* C22: with the backend configured, no ai_generate step is recorded as
\* Failed: its error is empty, and its result is what the backend replied
\* or, when the call failed, the "[AI Error: ...]" text.
C22_AiFailureRecordedAsResult ==
    ai_configured =>
        \A q \in Slots : \A k \in 1..Len(reqs[q].results) :
            AiStep(q, k) =>
                /\ reqs[q].results[k].error = PyNone
                /\ reqs[q].results[k].result \in
                      AiErrorTexts \cup {r.content : r \in {x \in AiReplies : x.kind = "content"}}

\* a run whose ai_generate call failed has completed, and its Run Record
\* holds the "[AI Error: ...]" text as the result of the step, with no error
C22_Witness ==
    /\ ai_configured
    /\ \E q \in Slots : \E k \in 1..Len(reqs[q].results) :
          /\ AiStep(q, k)
          /\ reqs[q].results[k].result \in AiErrorTexts
          /\ reqs[q].results[k].error = PyNone
          /\ reqs[q].pc = "completed"
          /\ reqs[q].logid \in DOMAIN workflow_logs
          /\ workflow_logs[reqs[q].logid].result_json = json_dumps(JArr(reqs[q].results))

====
